---- MODULE Spec2Model ----
(***************************************************************************)
(* Model of the HMM model selectors (my_model_selectors.py) and of the     *)
(* recognizer (my_recognizer.py).                                          *)
(*                                                                         *)
(* GaussianHMM.fit and GaussianHMM.score are external: every call's        *)
(* outcome (a fitted model or a failure; a log-likelihood or an exception) *)
(* is chosen by the environment.  Log-likelihoods are drawn from a small   *)
(* integer range; derived real numbers (means, DIC values) are kept as     *)
(* fractions in lowest terms.                                              *)
(***************************************************************************)
EXTENDS Integers, Sequences, FiniteSets, TLC

\* ---------------------------------------------------------------- bounds
\* largest candidate state count tried (max_n_components)
MaxN == 3
\* log-likelihoods returned by score() range over -1..MaxLogL
MaxLogL == 2
\* largest number of training sequences of the word
MaxSeq == 5
\* largest number of frames per training sequence
MaxFrames == 2
\* largest feature dimensionality (columns of X)
MaxDim == 2
\* largest number of test items
MaxItems == 2

\* ------------------------------------------------------ program constants
\* ModelSelector.__init__ defaults
min_n_components == 2
n_constant == 3
max_n_components == MaxN

VARIABLES
    selector,          \* which program runs: a selector class, or "recognize"
    words,             \* self.words: the vocabulary (keys of all_word_sequences)
    this_word,         \* self.this_word
    sequences,         \* self.sequences: frames of each training sequence
    dim,               \* columns of the feature matrix
    n_splits,          \* the number of folds KFold() is built with
    X,                 \* self.X (with self.lengths): the sequence indices it concatenates
    n,                 \* number_of_components: the candidate the for loop is at
    model_scores,      \* the score table, indexed by n - min_n_components + 1
    logL,              \* the last value score(self.X, self.lengths) returned
    other_scores,      \* DIC: outcome of model.score(other_word, model) per other word
    component_scores,  \* CV: <<sum, length>> of the component_scores list
    fold,              \* CV: position in KFold().split(...)
    fits,              \* number of base_model calls so far
    splits,            \* number of KFold().split calls so far
    failed,            \* candidates whose iteration left the table entry None
    pc,                \* "loop", "fold", "done" (returned), "raised"
    result,            \* what select() returned
    refit,             \* argument of the base_model call whose value was returned (0: none)
    raised,            \* class of the exception that escaped, or "none"
    models,            \* recognize: models.keys() in iteration order
    items,             \* recognize: number of test items (test_words.keys() in order)
    word_id,           \* recognize: the test item the outer loop is at
    w,                 \* recognize: position of the inner loop in models.keys()
    scores,            \* recognize: the item's dict, as <<word, value>> in insertion order
    outcomes,          \* recognize: what score() did, per item and word
    probabilities,
    guesses

\* what the constructor stores and select() only reads
inputs == <<selector, words, this_word, sequences, dim, n_splits>>
selvars == <<selector, words, this_word, sequences, dim, n_splits, X, n, model_scores,
             logL, other_scores, component_scores, fold, fits, splits, failed, pc,
             result, refit, raised>>
recvars == <<models, items, word_id, w, scores, outcomes, probabilities, guesses>>
vars == <<selvars, recvars>>

\* ------------------------------------------------------------ arithmetic
None == <<>>
LogLs == (0 - 1)..MaxLogL
\* what a score() call does: <<v>> when it returns v, <<>> when it raises
ScoreRaises == <<>>
ScoreOutcomes == {<<v>> : v \in LogLs} \cup {ScoreRaises}

Abs(i) == IF i < 0 THEN 0 - i ELSE i

RECURSIVE Gcd(_, _)
Gcd(a, b) == IF b = 0 THEN a ELSE Gcd(b, a % b)

\* the real number num/den (den > 0), in lowest terms
Rat(num, den) ==
    LET g == Gcd(Abs(num), den) IN <<num \div g, den \div g>>

RatLess(a, b) == a[1] * b[2] < b[1] * a[2]
RatSub(a, b) == Rat(a[1] * b[2] - b[1] * a[2], a[2] * b[2])
\* bool(x) of a number
Truthy(a) == a[1] # 0

RECURSIVE Pow2(_)
Pow2(e) == IF e = 0 THEN 1 ELSE 2 * Pow2(e - 1)
IsPow2(m) == \E e \in 0..m : Pow2(e) = m
\* np.log2 on the powers of two
Log2(m) == CHOOSE e \in 0..m : Pow2(e) = m

RECURSIVE SumSeq(_)
SumSeq(s) == IF s = <<>> THEN 0 ELSE Head(s) + SumSeq(Tail(s))

\* ------------------------------------------------------------------ data
Candidates == min_n_components..max_n_components
Slot(c) == c - min_n_components + 1
EmptyTable == [i \in 1..(max_n_components - min_n_components + 1) |-> None]

FullX == [i \in 1..Len(sequences) |-> i]
\* X.shape[0], X.shape[1]
Rows(x) == SumSeq([i \in 1..Len(x) |-> sequences[x[i]]])
Cols == dim

Model(num_states, x) == <<"GaussianHMM", num_states, x>>

\* base_model(num_states): the fitted model, or None when fit raised
base_model(num_states, fit_ok) ==
    IF fit_ok THEN Model(num_states, X) ELSE None

\* ------------------------------------------------------- picking the best
\* filter(None, model_scores)
Filtered(ms) == {i \in DOMAIN ms : ms[i] # None /\ Truthy(ms[i])}
AllNone(ms) == \A i \in DOMAIN ms : ms[i] = None
\* model_scores.index(v)
Index(ms, v) == CHOOSE i \in DOMAIN ms : ms[i] = v /\ \A j \in 1..(i - 1) : ms[j] # v
MinOf(ms, S) == CHOOSE i \in S : \A j \in S : ~RatLess(ms[j], ms[i])
MaxOf(ms, S) == CHOOSE i \in S : \A j \in S : ~RatLess(ms[i], ms[j])
\* model_scores.index(min(filter(None, model_scores))) + self.min_n_components
BestMin(ms) == Index(ms, ms[MinOf(ms, Filtered(ms))]) - 1 + min_n_components
BestMax(ms) == Index(ms, ms[MaxOf(ms, Filtered(ms))]) - 1 + min_n_components

Return(value, arg) ==
    /\ result' = value
    /\ refit' = arg
    /\ pc' = "done"
    /\ raised' = "none"

Raise(class) ==
    /\ raised' = class
    /\ pc' = "raised"
    /\ UNCHANGED <<result, refit>>

\* ---------------------------------------------------------- construction
Vocabularies == {{<<"A">>}, {<<"A">>, <<"A", "B">>}, {<<"A", "B">>, <<"C", "D">>}}

InitRecIdle ==
    /\ models = <<>>
    /\ items = 0
    /\ word_id = 1
    /\ w = 1
    /\ scores = <<>>
    /\ outcomes = <<>>
    /\ probabilities = <<>>
    /\ guesses = <<>>

InitSelector(name) ==
    /\ selector = name
    /\ X = FullX
    /\ n = min_n_components
    /\ model_scores = EmptyTable
    /\ logL = 0
    /\ other_scores = <<>>
    /\ component_scores = <<0, 0>>
    /\ fold = 0
    /\ fits = 0
    /\ splits = 0
    /\ failed = {}
    /\ pc = "loop"
    /\ result = None
    /\ refit = 0
    /\ raised = "none"
    /\ InitRecIdle

InitBIC ==
    /\ words = {<<"A">>}
    /\ this_word = <<"A">>
    /\ \E s \in 1..MaxSeq, f \in 1..MaxFrames : sequences = [i \in 1..s |-> f]
    /\ IsPow2(SumSeq(sequences))
    /\ dim \in 1..MaxDim
    /\ n_splits = 3
    /\ InitSelector("BIC")

\* ---------------------------------------------------------- SelectorBIC
\* the expression of lines 82-86
BICScore(c, ll) ==
    (0 - (2 * ll)) + (c * c + ((2 * c * Cols) - 1) * Log2(Rows(X)))

\* lines 80-89, the try succeeds
BICCandidate ==
    /\ selector = "BIC" /\ pc = "loop" /\ n <= max_n_components
    /\ \E ll \in LogLs :
        /\ logL' = ll
        /\ model_scores' = [model_scores EXCEPT ![Slot(n)] = Rat(BICScore(n, ll), 1)]
    /\ fits' = fits + 1
    /\ n' = n + 1
    /\ UNCHANGED <<inputs, X, other_scores,
                   component_scores, fold, splits, failed, pc, result, refit, raised>>
    /\ UNCHANGED recvars

\* lines 80-88: base_model returned None (AttributeError) or score raised ValueError
BICCandidateFails ==
    /\ selector = "BIC" /\ pc = "loop" /\ n <= max_n_components
    /\ fits' = fits + 1
    /\ failed' = failed \cup {n}
    /\ n' = n + 1
    /\ UNCHANGED <<inputs, X, model_scores,
                   logL, other_scores, component_scores, fold, splits, pc, result, refit,
                   raised>>
    /\ UNCHANGED recvars

\* BICReturnNone as it would be with the fallback policy of DIC and CV
BICReturnsFallback ==
    /\ selector = "BIC" /\ pc = "loop" /\ n > max_n_components
    /\ AllNone(model_scores)
    /\ \E fit_ok \in BOOLEAN :
        Return(base_model(min_n_components, fit_ok), min_n_components)
    /\ fits' = fits + 1
    /\ UNCHANGED <<inputs, X, n, model_scores, logL, other_scores, component_scores, fold,
                   splits, failed>>
    /\ UNCHANGED recvars

\* line 91
BICReturnNone ==
    /\ selector = "BIC" /\ pc = "loop" /\ n > max_n_components
    /\ AllNone(model_scores)
    /\ Return(None, 0)
    /\ UNCHANGED <<inputs, X, n,
                   model_scores, logL, other_scores, component_scores, fold, fits, splits,
                   failed>>
    /\ UNCHANGED recvars

\* line 93: min() of an empty filter raises ValueError
BICMinRaises ==
    /\ selector = "BIC" /\ pc = "loop" /\ n > max_n_components
    /\ ~AllNone(model_scores)
    /\ Filtered(model_scores) = {}
    /\ Raise("ValueError")
    /\ UNCHANGED <<inputs, X, n,
                   model_scores, logL, other_scores, component_scores, fold, fits, splits,
                   failed>>
    /\ UNCHANGED recvars

\* lines 93-95
BICReturnBest ==
    /\ selector = "BIC" /\ pc = "loop" /\ n > max_n_components
    /\ ~AllNone(model_scores)
    /\ Filtered(model_scores) # {}
    /\ \E fit_ok \in BOOLEAN :
        Return(base_model(BestMin(model_scores), fit_ok), BestMin(model_scores))
    /\ fits' = fits + 1
    /\ UNCHANGED <<inputs, X, n,
                   model_scores, logL, other_scores, component_scores, fold, splits,
                   failed>>
    /\ UNCHANGED recvars

NextBIC ==
    \/ BICCandidate
    \/ BICCandidateFails
    \/ BICReturnNone
    \/ BICMinRaises
    \/ BICReturnBest

SpecBIC == InitBIC /\ [][NextBIC]_vars

\* ---------------------------------------------------------- SelectorDIC
InitDIC ==
    /\ words \in Vocabularies
    /\ this_word \in words
    /\ sequences = <<1>>
    /\ dim = 1
    /\ n_splits = 3
    /\ InitSelector("DIC")

\* set(self.this_word): the characters of the word
Chars(word) == {<<word[i]>> : i \in 1..Len(word)}
\* line 121: set(self.words) - set(self.this_word)
OtherWords == words \ Chars(this_word)
\* line 128: len([word for word in other_words if word])
OtherCount == Cardinality({word \in OtherWords : word # <<>>})

RECURSIVE SumOutcomes(_, _)
\* line 128: sum(filter(None, other_word_scores)), the Nones of line 122 dropped
SumOutcomes(os, S) ==
    IF S = {} THEN 0
    ELSE LET word == CHOOSE x \in S : TRUE
         IN (IF os[word] = ScoreRaises THEN 0 ELSE os[word][1])
                + SumOutcomes(os, S \ {word})

\* lines 128-129: model_score - model_penalty
DICScore(ll, os) == RatSub(Rat(ll, 1), Rat(SumOutcomes(os, OtherWords), OtherCount))

\* lines 114-129; a TypeError of line 125 is caught at line 126
DICCandidate ==
    /\ selector = "DIC" /\ pc = "loop" /\ n <= max_n_components
    /\ OtherCount # 0
    /\ \E ll \in LogLs, os \in [OtherWords -> ScoreOutcomes] :
        /\ logL' = ll
        /\ other_scores' = os
        /\ model_scores' = [model_scores EXCEPT ![Slot(n)] = DICScore(ll, os)]
    /\ fits' = fits + 1
    /\ n' = n + 1
    /\ UNCHANGED <<inputs, X, component_scores, fold, splits, failed, pc, result, refit,
                   raised>>
    /\ UNCHANGED recvars

\* lines 114-128: the division of line 128 by an empty count
DICPenaltyRaises ==
    /\ selector = "DIC" /\ pc = "loop" /\ n <= max_n_components
    /\ OtherCount = 0
    /\ \E ll \in LogLs, os \in [OtherWords -> ScoreOutcomes] :
        /\ logL' = ll
        /\ other_scores' = os
    /\ fits' = fits + 1
    /\ Raise("ZeroDivisionError")
    /\ UNCHANGED <<inputs, X, n, model_scores, component_scores, fold, splits, failed>>
    /\ UNCHANGED recvars

\* lines 115-119: base_model returned None (AttributeError) or score raised ValueError
DICCandidateFails ==
    /\ selector = "DIC" /\ pc = "loop" /\ n <= max_n_components
    /\ fits' = fits + 1
    /\ failed' = failed \cup {n}
    /\ n' = n + 1
    /\ UNCHANGED <<inputs, X, model_scores, logL, other_scores, component_scores, fold,
                   splits, pc, result, refit, raised>>
    /\ UNCHANGED recvars

\* lines 131-134: max() of an empty filter raises ValueError, caught
DICFallback ==
    /\ selector = "DIC" /\ pc = "loop" /\ n > max_n_components
    /\ Filtered(model_scores) = {}
    /\ \E fit_ok \in BOOLEAN :
        Return(base_model(min_n_components, fit_ok), min_n_components)
    /\ fits' = fits + 1
    /\ UNCHANGED <<inputs, X, n, model_scores, logL, other_scores, component_scores, fold,
                   splits, failed>>
    /\ UNCHANGED recvars

\* lines 132, 136
DICReturnBest ==
    /\ selector = "DIC" /\ pc = "loop" /\ n > max_n_components
    /\ Filtered(model_scores) # {}
    /\ \E fit_ok \in BOOLEAN :
        Return(base_model(BestMax(model_scores), fit_ok), BestMax(model_scores))
    /\ fits' = fits + 1
    /\ UNCHANGED <<inputs, X, n, model_scores, logL, other_scores, component_scores, fold,
                   splits, failed>>
    /\ UNCHANGED recvars

NextDIC ==
    \/ DICCandidate
    \/ DICPenaltyRaises
    \/ DICCandidateFails
    \/ DICFallback
    \/ DICReturnBest

SpecDIC == InitDIC /\ [][NextDIC]_vars

\* ----------------------------------------------------------- SelectorCV
\* KFold() takes the default n_splits of the installed scikit-learn:
\* 3 before release 0.22, 5 from it on
KFoldDefaults == {3, 5}

InitCV ==
    /\ words = {<<"A">>}
    /\ this_word = <<"A">>
    /\ \E s \in 1..MaxSeq : sequences = [i \in 1..s |-> 1]
    /\ dim = 1
    /\ n_splits \in KFoldDefaults
    /\ InitSelector("CV")

\* KFold without shuffling: contiguous test folds, the first m % k one longer
FoldStart(m, k, f) ==
    1 + (f - 1) * (m \div k) + (IF f - 1 < m % k THEN f - 1 ELSE m % k)
FoldSize(m, k, f) == (m \div k) + (IF f <= m % k THEN 1 ELSE 0)
TestIdx(m, k, f) == FoldStart(m, k, f)..(FoldStart(m, k, f) + FoldSize(m, k, f) - 1)
\* line 155: combine_sequences(cv_train_idx, self.sequences)
TrainX(f) ==
    LET test == TestIdx(Len(sequences), n_splits, f)
    IN SelectSeq(FullX, LAMBDA i : i \notin test)

\* EnoughSequences with the threshold off by one
EnoughSequencesOffByOne == Len(sequences) > 1

\* line 153
EnoughSequences == Len(sequences) > 2

\* lines 151-154: a new candidate, the split starts
CVSplit ==
    /\ selector = "CV" /\ pc = "loop" /\ n <= max_n_components
    /\ EnoughSequences
    /\ n_splits <= Len(sequences)
    /\ component_scores' = <<0, 0>>
    /\ splits' = splits + 1
    /\ fold' = 1
    /\ pc' = "fold"
    /\ UNCHANGED <<inputs, X, n, model_scores, logL, other_scores, fits, failed, result,
                   refit, raised>>
    /\ UNCHANGED recvars

\* line 154: KFold.split raises ValueError with more splits than samples
CVSplitRaises ==
    /\ selector = "CV" /\ pc = "loop" /\ n <= max_n_components
    /\ EnoughSequences
    /\ n_splits > Len(sequences)
    /\ component_scores' = <<0, 0>>
    /\ splits' = splits + 1
    /\ Raise("ValueError")
    /\ UNCHANGED <<inputs, X, n, model_scores, logL, other_scores, fold, fits, failed>>
    /\ UNCHANGED recvars

\* lines 165-166
CVShortCircuit ==
    /\ selector = "CV" /\ pc = "loop" /\ n <= max_n_components
    /\ ~EnoughSequences
    /\ component_scores' = <<0, 0>>
    /\ \E fit_ok \in BOOLEAN :
        Return(base_model(min_n_components, fit_ok), min_n_components)
    /\ fits' = fits + 1
    /\ UNCHANGED <<inputs, X, n, model_scores, logL, other_scores, fold, splits, failed>>
    /\ UNCHANGED recvars

\* lines 155-161, the fold's fit and score succeed
CVFold ==
    /\ selector = "CV" /\ pc = "fold" /\ fold <= n_splits
    /\ X' = TrainX(fold)
    /\ \E v \in LogLs :
        component_scores' = <<component_scores[1] + v, component_scores[2] + 1>>
    /\ fits' = fits + 1
    /\ fold' = fold + 1
    /\ UNCHANGED <<inputs, n, model_scores, logL, other_scores, splits, failed, pc, result,
                   refit, raised>>
    /\ UNCHANGED recvars

\* lines 155-160: base_model returned None (AttributeError) or score raised ValueError
CVFoldFails ==
    /\ selector = "CV" /\ pc = "fold" /\ fold <= n_splits
    /\ X' = TrainX(fold)
    /\ fits' = fits + 1
    /\ fold' = fold + 1
    /\ UNCHANGED <<inputs, n, model_scores, logL, other_scores, component_scores, splits,
                   failed, pc, result, refit, raised>>
    /\ UNCHANGED recvars

\* lines 162-164
CVAverage ==
    /\ selector = "CV" /\ pc = "fold" /\ fold > n_splits
    /\ component_scores[2] > 0
    /\ model_scores' = [model_scores EXCEPT
                           ![Slot(n)] = Rat(component_scores[1], component_scores[2])]
    /\ n' = n + 1
    /\ pc' = "loop"
    /\ UNCHANGED <<inputs, X, logL, other_scores, component_scores, fold, fits, splits,
                   failed, result, refit, raised>>
    /\ UNCHANGED recvars

\* line 162: no fold produced a score
CVNoScore ==
    /\ selector = "CV" /\ pc = "fold" /\ fold > n_splits
    /\ component_scores[2] = 0
    /\ failed' = failed \cup {n}
    /\ n' = n + 1
    /\ pc' = "loop"
    /\ UNCHANGED <<inputs, X, model_scores, logL, other_scores, component_scores, fold,
                   fits, splits, result, refit, raised>>
    /\ UNCHANGED recvars

\* lines 168-169
CVFallback ==
    /\ selector = "CV" /\ pc = "loop" /\ n > max_n_components
    /\ AllNone(model_scores)
    /\ \E fit_ok \in BOOLEAN :
        Return(base_model(min_n_components, fit_ok), min_n_components)
    /\ fits' = fits + 1
    /\ UNCHANGED <<inputs, X, n, model_scores, logL, other_scores, component_scores, fold,
                   splits, failed>>
    /\ UNCHANGED recvars

\* line 171: max() of an empty filter raises ValueError
CVMaxRaises ==
    /\ selector = "CV" /\ pc = "loop" /\ n > max_n_components
    /\ ~AllNone(model_scores)
    /\ Filtered(model_scores) = {}
    /\ Raise("ValueError")
    /\ UNCHANGED <<inputs, X, n, model_scores, logL, other_scores, component_scores, fold,
                   fits, splits, failed>>
    /\ UNCHANGED recvars

\* lines 171-173
CVReturnBest ==
    /\ selector = "CV" /\ pc = "loop" /\ n > max_n_components
    /\ ~AllNone(model_scores)
    /\ Filtered(model_scores) # {}
    /\ \E fit_ok \in BOOLEAN :
        Return(base_model(BestMax(model_scores), fit_ok), BestMax(model_scores))
    /\ fits' = fits + 1
    /\ UNCHANGED <<inputs, X, n, model_scores, logL, other_scores, component_scores, fold,
                   splits, failed>>
    /\ UNCHANGED recvars

NextCV ==
    \/ CVSplit
    \/ CVSplitRaises
    \/ CVShortCircuit
    \/ CVFold
    \/ CVFoldFails
    \/ CVAverage
    \/ CVNoScore
    \/ CVFallback
    \/ CVMaxRaises
    \/ CVReturnBest

SpecCV == InitCV /\ [][NextCV]_vars

\* ----------------------------------------------------- SelectorConstant
InitConstant ==
    /\ words = {<<"A">>}
    /\ this_word = <<"A">>
    /\ \E s \in 1..MaxSeq : sequences = [i \in 1..s |-> 1]
    /\ dim = 1
    /\ n_splits = 3
    /\ InitSelector("Constant")

\* lines 57-58
ConstantSelect ==
    /\ selector = "Constant" /\ pc = "loop"
    /\ \E fit_ok \in BOOLEAN : Return(base_model(n_constant, fit_ok), n_constant)
    /\ fits' = fits + 1
    /\ UNCHANGED <<inputs, X, n, model_scores, logL, other_scores, component_scores, fold,
                   splits, failed>>
    /\ UNCHANGED recvars

InitSelect == InitConstant \/ InitBIC \/ InitDIC \/ InitCV
NextSelect == ConstantSelect \/ NextBIC \/ NextDIC \/ NextCV
SpecSelect == InitSelect /\ [][NextSelect]_vars

\* ------------------------------------------------------------ recognize
\* models.keys(): the model bank holds at least one word
ModelBanks == {<<"A">>, <<"A", "B">>, <<"B", "A">>}

InitSelIdle ==
    /\ words = {}
    /\ this_word = <<>>
    /\ sequences = <<>>
    /\ dim = 1
    /\ n_splits = 3
    /\ X = <<>>
    /\ n = min_n_components
    /\ model_scores = EmptyTable
    /\ logL = 0
    /\ other_scores = <<>>
    /\ component_scores = <<0, 0>>
    /\ fold = 0
    /\ fits = 0
    /\ splits = 0
    /\ failed = {}
    /\ refit = 0

\* lines 20-24
InitRecognize ==
    /\ selector = "recognize"
    /\ InitSelIdle
    /\ models \in ModelBanks
    /\ items \in 0..MaxItems
    /\ word_id = 1
    /\ w = 1
    /\ scores = <<>>
    /\ outcomes = <<>>
    /\ probabilities = <<>>
    /\ guesses = <<>>
    /\ pc = "loop"
    /\ result = None
    /\ raised = "none"

\* what score() did for the word at position w of the current item
Record(out) ==
    IF w = 1 THEN Append(outcomes, <<out>>)
    ELSE [outcomes EXCEPT ![Len(outcomes)] = Append(@, out)]

\* Guess without the key function: max() of the words themselves
GuessGreatestWord(sc) ==
    IF \E i \in 1..Len(sc) : sc[i][1] = "B" THEN "B" ELSE "A"

\* line 35: max(scores.keys(), key=lambda k: scores[k]), the first maximum
Guess(sc) ==
    LET i == CHOOSE i \in 1..Len(sc) :
                 /\ \A j \in 1..Len(sc) : sc[j][2] <= sc[i][2]
                 /\ \A j \in 1..(i - 1) : sc[j][2] < sc[i][2]
    IN sc[i][1]

\* lines 29-31
Score ==
    /\ selector = "recognize" /\ pc = "loop"
    /\ word_id <= items /\ w <= Len(models)
    /\ \E v \in LogLs :
        /\ scores' = Append(scores, <<models[w], v>>)
        /\ outcomes' = Record(<<v>>)
    /\ w' = w + 1
    /\ UNCHANGED <<models, items, word_id, probabilities, guesses>>
    /\ UNCHANGED selvars

\* lines 30-33: score raised, whatever the class
ScoreFails ==
    /\ selector = "recognize" /\ pc = "loop"
    /\ word_id <= items /\ w <= Len(models)
    /\ outcomes' = Record(ScoreRaises)
    /\ w' = w + 1
    /\ UNCHANGED <<models, items, word_id, scores, probabilities, guesses>>
    /\ UNCHANGED selvars

\* lines 34-35, then the next item at lines 26-28
AppendGuess ==
    /\ selector = "recognize" /\ pc = "loop"
    /\ word_id <= items /\ w > Len(models)
    /\ scores # <<>>
    /\ probabilities' = Append(probabilities, scores)
    /\ guesses' = Append(guesses, Guess(scores))
    /\ word_id' = word_id + 1
    /\ w' = 1
    /\ scores' = <<>>
    /\ UNCHANGED <<models, items, outcomes>>
    /\ UNCHANGED selvars

\* lines 34-35: max() of an empty dict's keys raises ValueError
GuessRaises ==
    /\ selector = "recognize" /\ pc = "loop"
    /\ word_id <= items /\ w > Len(models)
    /\ scores = <<>>
    /\ probabilities' = Append(probabilities, scores)
    /\ Raise("ValueError")
    /\ UNCHANGED <<models, items, word_id, w, scores, outcomes, guesses>>
    /\ UNCHANGED <<inputs, X, n, model_scores, logL, other_scores, component_scores, fold,
                   fits, splits, failed>>

\* line 37
RecognizeReturn ==
    /\ selector = "recognize" /\ pc = "loop"
    /\ word_id > items
    /\ Return(<<probabilities, guesses>>, 0)
    /\ UNCHANGED recvars
    /\ UNCHANGED <<inputs, X, n, model_scores, logL, other_scores, component_scores, fold,
                   fits, splits, failed>>

NextRecognize ==
    \/ Score
    \/ ScoreFails
    \/ AppendGuess
    \/ GuessRaises
    \/ RecognizeReturn

SpecRecognize == InitRecognize /\ [][NextRecognize]_vars

\* ------------------------------------------------------------ everything
Init == InitSelect \/ InitRecognize
Next == NextSelect \/ NextRecognize
Spec == Init /\ [][Next]_vars

\* =============================================================== claims
Selectors == {"Constant", "BIC", "DIC", "CV"}
Present(ms) == {i \in DOMAIN ms : ms[i] # None}
Returned == pc = "done"
Ended == pc \in {"done", "raised"}
\* the value a base_model(c) call hands back when made on the data x
FitOf(c, x) == {None, Model(c, x)}

\* C1: select() of every strategy never raises and ends by returning a model
\* fitted for some n in [min_n_components, max_n_components] or the strategy's
\* fallback / none result.
C1_SelectNeverRaises ==
    selector \in Selectors =>
        /\ pc # "raised"
        /\ Returned => \/ result = None
                       \/ result[2] \in Candidates \cup {n_constant}

\* C2: when every candidate fails to produce a score, SelectorBIC returns None
\* while SelectorDIC and SelectorCV return base_model(min_n_components).
C2_ExhaustedSearch ==
    (selector \in {"BIC", "DIC", "CV"} /\ failed = Candidates) =>
        /\ pc # "raised"
        /\ (Returned /\ selector = "BIC") => (result = None /\ refit = 0)
        /\ (Returned /\ selector \in {"DIC", "CV"}) =>
               /\ refit = min_n_components
               /\ result \in FitOf(min_n_components, X)

C2_Witness ==
    /\ selector = "CV" /\ Returned /\ failed = Candidates
    /\ fits > 1
    /\ result = Model(min_n_components, X)

\* the parameter count of the documented formula
FreeParameters(c) == c * c + ((2 * c * Cols) - 1)

\* C3: the value SelectorBIC stores for a candidate is -2 * logL + p * log2(N),
\* p = n^2 + (2*n*d - 1), the whole of p multiplied by log2(N).
C3_BICFormula ==
    (selector = "BIC" /\ n > min_n_components /\ model_scores[Slot(n - 1)] # None) =>
        model_scores[Slot(n - 1)]
            = Rat((0 - (2 * logL)) + FreeParameters(n - 1) * Log2(Rows(X)), 1)

\* C4: whenever some candidate has an entry in the BIC table, select() returns
\* base_model(n) for the n whose entry is the minimum of the present entries,
\* whatever the values are.
C4_BICPicksMinimum ==
    (selector = "BIC" /\ Ended /\ Present(model_scores) # {}) =>
        /\ Returned
        /\ refit \in Candidates
        /\ Slot(refit) \in Present(model_scores)
        /\ \A j \in Present(model_scores) :
               ~RatLess(model_scores[j], model_scores[Slot(refit)])

\* the other words of the vocabulary, and those among them that were scored
TrueOthers == words \ {this_word}
ScoredOthers ==
    {word \in TrueOthers \cap DOMAIN other_scores : other_scores[word] # ScoreRaises}

\* C5: the value SelectorDIC stores for a candidate is logL_self minus the mean
\* of the scores of the model on every word other than the target word, the
\* mean taken over exactly the other words whose scoring succeeded.
C5_DICPenalty ==
    (selector = "DIC" /\ n > min_n_components /\ model_scores[Slot(n - 1)] # None) =>
        /\ DOMAIN other_scores = TrueOthers
        /\ ScoredOthers # {} =>
               model_scores[Slot(n - 1)]
                   = RatSub(Rat(logL, 1),
                            Rat(SumOutcomes(other_scores, ScoredOthers),
                                Cardinality(ScoredOthers)))

\* C6: with 2 or fewer training sequences SelectorCV.select() returns
\* base_model(min_n_components) before any k-fold split, fold fit or further
\* candidate: the single fit for min_n_components is the only one performed.
C6_ShortCircuit ==
    (selector = "CV" /\ Len(sequences) <= 2) =>
        /\ splits = 0 /\ fold = 0
        /\ n = min_n_components
        /\ pc # "raised"
        /\ ~Returned => fits = 0
        /\ Returned =>
               /\ fits = 1
               /\ refit = min_n_components
               /\ result \in FitOf(min_n_components, FullX)

C6_Witness ==
    /\ selector = "CV" /\ Len(sequences) = 2 /\ Returned
    /\ result = Model(min_n_components, FullX)
    /\ fits = 1 /\ splits = 0

\* C7: with more than 2 sequences SelectorCV's entry for n is present exactly
\* when some fold succeeded for n and is then the average of the successful fold
\* scores; when some entry is present select() returns base_model(n) for the n
\* with the maximum entry, whatever the values are.
C7_CVAverageAndMaximum ==
    (selector = "CV" /\ Len(sequences) > 2) =>
        /\ (pc # "fold" /\ n > min_n_components) =>
               /\ model_scores[Slot(n - 1)] # None <=> component_scores[2] > 0
               /\ component_scores[2] > 0 =>
                      model_scores[Slot(n - 1)]
                          = Rat(component_scores[1], component_scores[2])
        /\ (Ended /\ Present(model_scores) # {}) =>
               /\ Returned
               /\ refit \in Candidates
               /\ Slot(refit) \in Present(model_scores)
               /\ \A j \in Present(model_scores) :
                      ~RatLess(model_scores[Slot(refit)], model_scores[j])

\* the words whose score() returned for item i, with the values returned
Scored(i) ==
    {<<models[j], outcomes[i][j][1]>> :
        j \in {k \in 1..Len(outcomes[i]) : outcomes[i][k] # ScoreRaises}}
Entries(sc) == {sc[j] : j \in 1..Len(sc)}

\* C8: recognize() returns one score map and one guess per test item, in the
\* test set's order; the i-th map holds exactly the words whose score() returned
\* for item i, each with its score, and the i-th guess is a key of that map with
\* the maximum score.
C8_RecognizeResult ==
    selector = "recognize" =>
        /\ Returned =>
               /\ result = <<probabilities, guesses>>
               /\ Len(probabilities) = items /\ Len(guesses) = items
        /\ \A i \in 1..Len(guesses) :
               /\ Len(outcomes[i]) = Len(models)
               /\ Entries(probabilities[i]) = Scored(i)
               /\ Cardinality(Scored(i)) = Len(probabilities[i])
               /\ \E e \in Entries(probabilities[i]) :
                      /\ e[1] = guesses[i]
                      /\ \A f \in Entries(probabilities[i]) : f[2] <= e[2]

C8_Witness ==
    /\ selector = "recognize" /\ Returned
    /\ items = MaxItems /\ Len(models) = 2
    /\ outcomes[1][2] = ScoreRaises /\ Len(probabilities[1]) = 1
    /\ Len(probabilities[2]) = 2
    /\ guesses[2] = models[2]

\* C9: no pattern of score() failures makes recognize() raise, an item for which
\* every word's scoring fails included; every item gets its map and guess.
C9_RecognizeNeverRaises ==
    selector = "recognize" =>
        /\ pc # "raised"
        /\ Returned => Len(guesses) = items

\* C10: select() leaves self.X and self.lengths as they were, and the final
\* re-fit is made on the word's full training data.
C10_TrainingDataUnchanged ==
    (selector \in Selectors /\ Returned) =>
        /\ X = FullX
        /\ result \in FitOf(refit, FullX)

====
